---- MODULE Spec2Model ----
(***************************************************************************)
(* Client data entry form (src/client_data_app.py): the reference-data     *)
(* cache, the prefill lookup, the change detection of a resubmission and   *)
(* the single INSERT of a submission, as a state machine whose steps are   *)
(* the user's interactions with the page, each followed by the run of      *)
(* main() that the interaction triggers.                                   *)
(*                                                                         *)
(* Text is a sequence of tokens: "," is the comma, " " a blank, any other  *)
(* token a run of characters holding neither.  A Python value is tagged    *)
(* with its type, so that None, "" and 0 stay distinct.                    *)
(***************************************************************************)
EXTENDS Integers, Sequences, FiniteSets, TLC

(* ---------------------------------------------------------------- values *)

None == [t |-> "none", v |-> <<>>]
Str(s) == [t |-> "str", v |-> s]
IntVal(n) == [t |-> "int", v |-> n]
\* A numeric column of the store, in tenths (1505 is 150.5).
Num(tenths) == [t |-> "num", v |-> tenths]

\* Python's truth value of None, a str or an int.
Truthy(x) ==
    CASE x.t = "none" -> FALSE
      [] x.t = "str" -> x.v # <<>>
      [] x.t = "int" -> x.v # 0
      [] OTHER -> TRUE

\* pd.notna of a cell.
notna(x) == x.t # "none"

Range(s) == {s[i] : i \in DOMAIN s}

(* ------------------------------------------------------------------ text *)

\* sep.join(items) with sep = ", "
RECURSIVE Join(_)
Join(items) ==
    IF items = <<>> THEN <<>>
    ELSE IF Len(items) = 1 THEN items[1]
    ELSE items[1] \o <<",", " ">> \o Join(Tail(items))

\* s.split(",")
RECURSIVE Split(_)
Split(s) ==
    IF \A i \in DOMAIN s : s[i] # ","
    THEN <<s>>
    ELSE LET i == CHOOSE j \in DOMAIN s : s[j] = "," /\ \A k \in 1..(j - 1) : s[k] # ","
         IN  <<SubSeq(s, 1, i - 1)>> \o Split(SubSeq(s, i + 1, Len(s)))

\* s.strip()
RECURSIVE Strip(_)
Strip(s) ==
    IF s = <<>> THEN <<>>
    ELSE IF Head(s) = " " THEN Strip(Tail(s))
    ELSE IF s[Len(s)] = " " THEN Strip(SubSeq(s, 1, Len(s) - 1))
    ELSE s

NonBlank(item) == Strip(item) # <<>>

\* [item.strip() for item in text.split(",") if item.strip()]
StripItems(text) ==
    LET kept == SelectSeq(Split(text), NonBlank)
    IN  [i \in DOMAIN kept |-> Strip(kept[i])]

parse_comma_string(value) ==
    IF ~Truthy(value) \/ ~notna(value) THEN <<>> ELSE StripItems(value.v)

\* int(float(x)): truncation toward zero.
IntOfFloat(x) == IF x.v >= 0 THEN x.v \div 10 ELSE -((-x.v) \div 10)

(* ------------------------------------------------- the options of the form *)

T(w) == <<w>>

placeholder_select == <<"Select", " ", "a", " ", "company...">>
placeholder_new == <<"--", " ", "Enter", " ", "new", " ", "company", " ", "--">>

client_type_options == <<T("Customer"), T("Clearer"), T("Broker")>>
status_options == <<T("Client"), T("Prospect"), <<"Setting", " ", "up">>>>
sensitivities_options == <<T("Margin"), T("Fees"), T("Liquidity")>>
barriers_options ==
    << <<"ICE", " ", "Default">>, T("Fees"), T("Margin"), T("Liquidity"),
       <<"IT", " ", "Setup", " ", "(us)">>, <<"IT", " ", "Setup", " ", "(them)">>,
       T("Compliance"), T("Risk"), T("Onboarding/KYC") >>
access_options ==
    << T("NCM"), T("GCM"), T("DMA"), T("API"), <<"Sponsored", " ", "Access">>,
       T("Voice"), T("Other") >>
etrm_options ==
    << T("Allegro"), T("Amphora"), T("Aspect"),
       <<"Brady", " ", "(Igloo", ",", " ", "Powerdesk", ",", " ", "Crisk...)">>,
       T("Comcore"), T("Eka"), T("Endure"), T("Entrade"), T("Entrader"),
       T("Ignite"), T("Inatech"), T("Lancelot"), T("Molecule"), T("Openlink"),
       T("PCI"), T("PexaOS"), T("Triplepoint"), T("Vuepoint") >>
front_end_options ==
    << T("TT"), T("Trayport"), T("Touchpoint"), <<"Manual", " ", "Entry">>, T("CQG") >>
source_options == <<T("Meeting"), T("Estimate"), T("Call")>>
eua_range_options ==
    << T("<2.5k"), T("2.5-5k"), T("5-10k"), T("10-20k"), T("20-50k"), T("50k+") >>
go_range_options == << T("<2.5k"), T("2.5-5k"), T("5-10k"), T("10-20k"), T("20k+") >>

\* The label -> representative value table of a submission.
range_midpoints ==
    << <<T("<2.5k"), 1250>>, <<T("2.5-5k"), 3750>>, <<T("5-10k"), 7500>>,
       <<T("10-20k"), 15000>>, <<T("20-50k"), 35000>>, <<T("50k+"), 50000>>,
       <<T("20k+"), 20000>> >>

\* table.get(label): the value of the first entry for label, None without one.
DictGet(table, label) ==
    IF \E i \in DOMAIN table : table[i][1] = label
    THEN IntVal(table[CHOOSE i \in DOMAIN table : table[i][1] = label][2])
    ELSE None

(* ------------------------------------------------------ prefill of the form *)

EmptyDict == [k \in {} |-> None]

\* d.get(key, default)
Get(d, key, default) == IF key \in DOMAIN d THEN d[key] ELSE default

TextOrEmpty(x) == IF notna(x) THEN x ELSE Str(<<>>)
ValueOrNone(x) == IF notna(x) THEN x ELSE None
VolumeOrNone(x) == IF notna(x) THEN IntVal(IntOfFloat(x)) ELSE None

PrefillOfRow(row) ==
    [ client_status |-> ValueOrNone(row.CLIENT_STATUS),
      sensitivities |-> parse_comma_string(row.SENSITIVITIES),
      barriers |-> parse_comma_string(row.BARRIERS),
      decision_makers |-> TextOrEmpty(row.DECISION_MAKERS),
      eua_volume |-> VolumeOrNone(row.EUA_VOLUME),
      go_volume |-> VolumeOrNone(row.GO_VOLUME),
      other_product_notes |-> TextOrEmpty(row.OTHER_PRODUCT_NOTES),
      access_type |-> ValueOrNone(row.ACCESS_TYPE),
      front_end |-> parse_comma_string(row.FRONT_END),
      front_end_details |-> TextOrEmpty(row.FRONT_END_DETAILS),
      clearers |-> parse_comma_string(row.CLEARERS),
      brokers |-> parse_comma_string(row.BROKERS),
      etrm |-> ValueOrNone(row.ETRM),
      source |-> ValueOrNone(row.SOURCE),
      notes |-> TextOrEmpty(row.NOTES) ]

Matches(row, company, client_type) ==
    row.COMPANY = company /\ row.CLIENT_TYPE = client_type

\* A variant that takes the last matching row instead of the first.
get_prefill_data_last_match(clients_df, company, client_type) ==
    IF clients_df = <<>> \/ ~Truthy(company) \/ ~Truthy(client_type)
    THEN EmptyDict
    ELSE IF SelectSeq(clients_df, LAMBDA r : Matches(r, company, client_type)) = <<>>
         THEN EmptyDict
         ELSE PrefillOfRow(clients_df[
                  CHOOSE i \in DOMAIN clients_df :
                     /\ Matches(clients_df[i], company, client_type)
                     /\ \A j \in DOMAIN clients_df :
                           Matches(clients_df[j], company, client_type) => j <= i ])

get_prefill_data(clients_df, company, client_type) ==
    IF clients_df = <<>> \/ ~Truthy(company) \/ ~Truthy(client_type)
    THEN EmptyDict
    ELSE LET matched == SelectSeq(clients_df, LAMBDA r : Matches(r, company, client_type))
         IN  IF matched = <<>> THEN EmptyDict ELSE PrefillOfRow(matched[1])

\* The value a select box starts from: the stored value when it is an option.
IndexDefault(prefill, key, options) ==
    LET stored == Get(prefill, key, None)
    IN  IF stored.t = "str" /\ stored.v \in Range(options) THEN stored ELSE None

\* The selection a multiselect starts from: the stored items that are options.
ListDefault(prefill, key, options) ==
    SelectSeq(Get(prefill, key, <<>>), LAMBDA x : x \in Range(options))

\* What the widgets inside the form show before the user edits them.
FormDefaults(prefill) ==
    [ client_status |-> IndexDefault(prefill, "client_status", status_options),
      sensitivities |-> ListDefault(prefill, "sensitivities", sensitivities_options),
      barriers |-> ListDefault(prefill, "barriers", barriers_options),
      decision_makers |-> Get(prefill, "decision_makers", Str(<<>>)),
      eua_volume_range |-> None,
      eua_volume_exact |-> Get(prefill, "eua_volume", None),
      other_product_notes |-> Get(prefill, "other_product_notes", Str(<<>>)),
      access_type |-> IndexDefault(prefill, "access_type", access_options),
      etrm |-> IndexDefault(prefill, "etrm", etrm_options),
      front_end |-> ListDefault(prefill, "front_end", front_end_options),
      front_end_details |-> Get(prefill, "front_end_details", Str(<<>>)),
      source |-> IndexDefault(prefill, "source", source_options),
      notes |-> Get(prefill, "notes", Str(<<>>)) ]

(* ------------------------------------------------- building a submission *)

\* The scalar comparison's normal form: "" and None are one value.
Normalize(x) == IF x = Str(<<>>) \/ x = None THEN None ELSE x

\* Variants of has_changed that the properties below must tell apart from it:
\* one that takes a field of a new record for unchanged, ...
has_changed_never_new(prefill, field_name, new_value, is_list) ==
    IF DOMAIN prefill = {}
    THEN FALSE
    ELSE IF is_list
         THEN Range(Get(prefill, field_name, <<>>)) # Range(new_value)
         ELSE Normalize(Get(prefill, field_name, None)) # Normalize(new_value)

\* ... one that takes every field for changed, ...
has_changed_always(prefill, field_name, new_value, is_list) == TRUE

\* ... and one that compares lists item by item.
has_changed_by_sequence(prefill, field_name, new_value, is_list) ==
    IF DOMAIN prefill = {}
    THEN TRUE
    ELSE IF is_list
         THEN Get(prefill, field_name, <<>>) # new_value
         ELSE Normalize(Get(prefill, field_name, None)) # Normalize(new_value)

has_changed(prefill, field_name, new_value, is_list) ==
    IF DOMAIN prefill = {}
    THEN TRUE
    ELSE IF is_list
         THEN LET prefill_list == Get(prefill, field_name, <<>>)
              IN  Range(prefill_list) # Range(new_value)
         ELSE Normalize(Get(prefill, field_name, None)) # Normalize(new_value)

\* ", ".join(items) if items else None
JoinOrNone(items) == IF items # <<>> THEN Str(Join(items)) ELSE None

\* (x if x else None)
ValueIfSet(x) == IF Truthy(x) THEN x ELSE None

\* The selected names followed by the stripped names typed into "add new".
CombineNames(selected, additional) ==
    selected \o (IF additional # <<>> THEN StripItems(additional) ELSE <<>>)

\* A variant in which an exact entry of zero wins over the range.
ResolveVolume_zero_wins(exact, range) ==
    IF exact # None /\ exact.v >= 0 THEN exact
    ELSE IF range # None THEN DictGet(range_midpoints, range.v)
    ELSE None

\* Exact entry first, then the range's table value, else nothing.
ResolveVolume(exact, range) ==
    IF exact # None /\ exact.v > 0 THEN exact
    ELSE IF range # None THEN DictGet(range_midpoints, range.v)
    ELSE None

ListFields == {"sensitivities", "barriers", "front_end", "clearers", "brokers"}

\* The list each set-valued field is compared by.
ComparedList(w, k) ==
    CASE k = "clearers" -> CombineNames(w.clearers, w.additional_clearers)
      [] k = "brokers" -> CombineNames(w.brokers, w.additional_brokers)
      [] OTHER -> w[k]

\* The set-valued fields has_changed reports as changed.
ChangedLists(w, prefill) ==
    { k \in ListFields : has_changed(prefill, k, ComparedList(w, k), TRUE) }

InsertColumns ==
    { "client_status", "client_type", "company", "sensitivities", "barriers",
      "decision_makers", "overall_volume", "eua_volume", "go_volume",
      "power_volume", "gas_volume", "other_product_notes", "access_type",
      "front_end", "front_end_details", "clearers", "brokers", "etrm", "source",
      "notes" }

ScalarFields ==
    { "client_status", "decision_makers", "eua_volume", "go_volume",
      "other_product_notes", "access_type", "front_end_details", "etrm",
      "source", "notes" }

\* A variant that gives a changed scalar field the value as entered.
Emitted_as_entered(field_name, x) ==
    IF field_name \in ListFields THEN JoinOrNone(x) ELSE x

\* The value a changed field is given: the joined list, the resolved volume,
\* or (x if x else None).
Emitted(field_name, x) ==
    CASE field_name \in ListFields -> JoinOrNone(x)
      [] field_name \in {"eua_volume", "go_volume"} -> x
      [] OTHER -> ValueIfSet(x)

\* One entry of the data dict: <value> if has_changed(...) else None
Field(prefill, field_name, x) ==
    IF has_changed(prefill, field_name, x, field_name \in ListFields)
    THEN Emitted(field_name, x) ELSE None

\* A variant that leaves the fields it has nothing new for out of the row.
BuildData_keys_only(w, prefill) ==
    [ client_type |-> w.client_type, company |-> w.company ]

\* The row the submit branch hands to the insert.  w: the widgets' values;
\* prefill: the prefill of this run.
BuildData(w, prefill) ==
    [ client_status |-> Field(prefill, "client_status", w.client_status),
      client_type |-> w.client_type,
      company |-> w.company,
      sensitivities |-> Field(prefill, "sensitivities", w.sensitivities),
      barriers |-> Field(prefill, "barriers", w.barriers),
      decision_makers |-> Field(prefill, "decision_makers", w.decision_makers),
      overall_volume |-> None,
      eua_volume |-> Field(prefill, "eua_volume",
                           ResolveVolume(w.eua_volume_exact, w.eua_volume_range)),
      go_volume |-> Field(prefill, "go_volume",
                          ResolveVolume(w.go_volume_exact, w.go_volume_range)),
      power_volume |-> None,
      gas_volume |-> None,
      other_product_notes |-> Field(prefill, "other_product_notes", w.other_product_notes),
      access_type |-> Field(prefill, "access_type", w.access_type),
      front_end |-> Field(prefill, "front_end", w.front_end),
      front_end_details |-> Field(prefill, "front_end_details", w.front_end_details),
      clearers |-> Field(prefill, "clearers", ComparedList(w, "clearers")),
      brokers |-> Field(prefill, "brokers", ComparedList(w, "brokers")),
      etrm |-> Field(prefill, "etrm", w.etrm),
      source |-> Field(prefill, "source", w.source),
      notes |-> Field(prefill, "notes", w.notes) ]

(* -------------------------------------------------------------- the store *)

max_retries == 3
TTL == 300
RecentLimit == 5

\* ALL_FIRM_NAMES: rows of (BROKER, CLEARER, CUSTOMER).
ALL_FIRM_NAMES ==
    << <<None, None, Str(T("Acme"))>>,
       <<Str(T("BrkA")), Str(T("ClrA")), None>> >>

\* The truthy cells of one column, in row order.
FirmColumn(rows, col) ==
    LET kept == SelectSeq(rows, LAMBDA r : Truthy(r[col]))
    IN  [i \in DOMAIN kept |-> kept[i][col].v]

\* ORDER BY ENTRY_DATE DESC LIMIT n
RECURSIVE OrderByDateDesc(_)
OrderByDateDesc(rows) ==
    IF rows = <<>> THEN <<>>
    ELSE LET i == CHOOSE j \in DOMAIN rows :
                      \A k \in DOMAIN rows : rows[k].ENTRY_DATE <= rows[j].ENTRY_DATE
             rest == [k \in 1..(Len(rows) - 1) |-> IF k < i THEN rows[k] ELSE rows[k + 1]]
         IN  <<rows[i]>> \o OrderByDateDesc(rest)

Limit(rows, n) == SubSeq(rows, 1, IF Len(rows) < n THEN Len(rows) ELSE n)

\* The retry loop: attempt numbers run from 0; the store answers from the
\* first_up-th attempt on (never, when first_up > max_retries).
RECURSIVE ConnectLoop(_, _, _)
ConnectLoop(attempt, sleeps, first_up) ==
    IF attempt >= max_retries
    THEN [conn |-> FALSE, attempts |-> attempt, sleeps |-> sleeps, error |-> TRUE,
          first_up |-> first_up]
    ELSE IF attempt + 1 >= first_up
         THEN [conn |-> TRUE, attempts |-> attempt + 1, sleeps |-> sleeps,
               error |-> FALSE, first_up |-> first_up]
         ELSE ConnectLoop(attempt + 1,
                          IF attempt < max_retries - 1 THEN sleeps + 1 ELSE sleeps,
                          first_up)

\* A variant that gives up after the first failed attempt.
get_snowflake_connection_no_retry(first_up) ==
    IF first_up <= 1
    THEN [conn |-> TRUE, attempts |-> 1, sleeps |-> 0, error |-> FALSE,
          first_up |-> first_up]
    ELSE [conn |-> FALSE, attempts |-> 1, sleeps |-> 0, error |-> TRUE,
          first_up |-> first_up]

get_snowflake_connection(first_up) == ConnectLoop(0, 0, first_up)

EmptyData ==
    [companies |-> <<>>, brokers |-> <<>>, clearers |-> <<>>,
     clients_df |-> <<>>, recent_df |-> <<>>]

\* What the function returns when its failed_query-th query raises (0: none
\* does): the lists and tables filled before that query.
FetchedUpTo(names, rows, failed_query) ==
    CASE failed_query = 1 -> EmptyData
      [] failed_query = 2 -> names
      [] failed_query = 3 -> [names EXCEPT !.clients_df = rows]
      [] OTHER -> [names EXCEPT !.clients_df = rows,
                                !.recent_df = Limit(OrderByDateDesc(rows), RecentLimit)]

FirmNames ==
    [EmptyData EXCEPT !.brokers = FirmColumn(ALL_FIRM_NAMES, 1),
                      !.clearers = FirmColumn(ALL_FIRM_NAMES, 2),
                      !.companies = FirmColumn(ALL_FIRM_NAMES, 3)]

FetchWith(c, rows, failed_query) ==
    [ conn |-> c,
      failed_query |-> IF c.conn THEN failed_query ELSE 0,
      value |-> IF c.conn THEN FetchedUpTo(FirmNames, rows, failed_query)
                ELSE EmptyData ]

\* One uncached execution.  failed_query: 0 when the three queries run, else
\* the number of the query whose execution raises.
get_all_data(rows, first_up, failed_query) ==
    FetchWith(get_snowflake_connection(first_up), rows, failed_query)

NoCache == [value |-> EmptyData, age |-> -1]

CacheValid(c) == c.age >= 0 /\ c.age < TTL

\* A variant that keeps no entry for an execution that returned nothing.
StoreResult_only_filled(r) ==
    [cache |-> IF r.value = EmptyData THEN NoCache ELSE [value |-> r.value, age |-> 0],
     value |-> r.value,
     fetched |-> <<[conn |-> r.conn, failed_query |-> r.failed_query]>>]

StoreResult(r) ==
    [cache |-> [value |-> r.value, age |-> 0], value |-> r.value,
     fetched |-> <<[conn |-> r.conn, failed_query |-> r.failed_query]>>]

\* A variant without the cache: every call is an execution.
CachedGetAllData_no_cache(c, rows, first_up, failed_query) ==
    StoreResult(get_all_data(rows, first_up, failed_query))

\* A call through the cache: the stored value while it is valid, else an
\* execution whose value is stored.
CachedGetAllData(c, rows, first_up, failed_query) ==
    IF CacheValid(c)
    THEN [cache |-> c, value |-> c.value, fetched |-> <<>>]
    ELSE StoreResult(get_all_data(rows, first_up, failed_query))

(* ------------------------------------------------------- a run of main() *)

\* The session state before the first run (missing keys hold their default).
InitSession ==
    [ company_selection |-> placeholder_select,
      new_company_name |-> <<>>,
      client_type_selection |-> None,
      clearers |-> <<>>, add_new_clearer |-> FALSE, additional_clearers |-> <<>>,
      brokers |-> <<>>, add_new_broker |-> FALSE, additional_brokers |-> <<>>,
      go_volume_range |-> None, go_volume_exact |-> None,
      previous_selection |-> None,
      reset_company_fields |-> FALSE, show_success |-> FALSE ]

\* A variant that leaves the reset flag set.
ResetFields_keeps_flag(s) ==
    IF s.reset_company_fields
    THEN [s EXCEPT !.company_selection = placeholder_select,
                   !.new_company_name = <<>>,
                   !.client_type_selection = None,
                   !.clearers = <<>>, !.add_new_clearer = FALSE,
                   !.additional_clearers = <<>>,
                   !.brokers = <<>>, !.add_new_broker = FALSE,
                   !.additional_brokers = <<>>,
                   !.go_volume_range = None, !.go_volume_exact = None,
                   !.previous_selection = None]
    ELSE s

ResetFields(s) ==
    IF s.reset_company_fields
    THEN [s EXCEPT !.company_selection = placeholder_select,
                   !.new_company_name = <<>>,
                   !.client_type_selection = None,
                   !.clearers = <<>>, !.add_new_clearer = FALSE,
                   !.additional_clearers = <<>>,
                   !.brokers = <<>>, !.add_new_broker = FALSE,
                   !.additional_brokers = <<>>,
                   !.go_volume_range = None, !.go_volume_exact = None,
                   !.previous_selection = None,
                   !.reset_company_fields = FALSE]
    ELSE s

ShowSuccess(s) == IF s.show_success THEN {"success"} ELSE {}

\* f"{company}|{client_type}"
SelectionKey(company, client_type) ==
    Str(company \o <<"|">> \o (IF client_type = None THEN T("None") ELSE client_type.v))

\* The session fields a change of the selection overwrites.
ApplySelection(s, current_selection, prefill) ==
    IF current_selection # s.previous_selection
    THEN [s EXCEPT !.previous_selection = current_selection,
                   !.clearers = Get(prefill, "clearers", <<>>),
                   !.brokers = Get(prefill, "brokers", <<>>),
                   !.go_volume_range = None,
                   !.go_volume_exact = Get(prefill, "go_volume", None)]
    ELSE s

\* A select box whose stored value is no option shows its first option.
ShownSelection(stored, companies) ==
    IF stored \in Range(<<placeholder_select, placeholder_new>> \o companies)
    THEN stored ELSE placeholder_select

\* The company the run works with.
CompanyOf(s, company_selection) ==
    IF company_selection = placeholder_new THEN s.new_company_name
    ELSE company_selection

\* Widgets that are not drawn lose their state.
DrawKeys(s, company_selection) ==
    [s EXCEPT !.company_selection = company_selection,
              !.new_company_name =
                  IF company_selection = placeholder_new THEN @ ELSE <<>>,
              !.additional_clearers = IF s.add_new_clearer THEN @ ELSE <<>>,
              !.additional_brokers = IF s.add_new_broker THEN @ ELSE <<>>]

TopWithPrefill(s, got, msgs, company, client_type, pre) ==
    [ ss |-> ApplySelection(s, SelectionKey(company, client_type), pre),
      cache |-> got.cache,
      data |-> got.value,
      fetched |-> got.fetched,
      prefill |-> pre,
      company |-> Str(company),
      client_type |-> client_type,
      msgs |-> msgs ]

TopWithKeys(s, got, msgs, company, client_type) ==
    TopWithPrefill(s, got, msgs, company, client_type,
                   get_prefill_data(got.value.clients_df, Str(company), client_type))

TopWithSelection(s, got, msgs, company_selection) ==
    TopWithKeys(DrawKeys(s, company_selection), got, msgs,
                CompanyOf(s, company_selection), s.client_type_selection)

TopWithData(s, got, msgs) ==
    TopWithSelection(s, got, msgs,
                     ShownSelection(s.company_selection, got.value.companies))

\* The script from its first line to the form: the pending reset and success
\* message, the reference data, the two key widgets, the prefill and the
\* session fields the selection drives.
RunTop(s0, c0, rows, first_up, failed_query) ==
    TopWithData([ResetFields(s0) EXCEPT !.show_success = FALSE],
                CachedGetAllData(c0, rows, first_up, failed_query),
                ShowSuccess(s0))

FormFields ==
    { "client_status", "sensitivities", "barriers", "decision_makers",
      "eua_volume_range", "eua_volume_exact", "other_product_notes", "access_type",
      "etrm", "front_end", "front_end_details", "source", "notes" }

MergeForm(f, old, new) ==
    [k \in FormFields |-> IF new[k] = old[k] THEN f[k] ELSE new[k]]

\* The widgets of the form have no key: one whose prefilled value changes is
\* a new widget showing the new value, the others keep what the user entered.
RedrawForm(f, old_prefill, new_prefill) ==
    IF new_prefill = old_prefill THEN f
    ELSE MergeForm(f, FormDefaults(old_prefill), FormDefaults(new_prefill))

\* The values the submit branch reads.
Widgets(top, f) ==
    [ company |-> top.company, client_type |-> top.client_type,
      clearers |-> top.ss.clearers, additional_clearers |-> top.ss.additional_clearers,
      brokers |-> top.ss.brokers, additional_brokers |-> top.ss.additional_brokers,
      go_volume_range |-> top.ss.go_volume_range,
      go_volume_exact |-> top.ss.go_volume_exact,
      client_status |-> f.client_status, sensitivities |-> f.sensitivities,
      barriers |-> f.barriers, decision_makers |-> f.decision_makers,
      eua_volume_range |-> f.eua_volume_range, eua_volume_exact |-> f.eua_volume_exact,
      other_product_notes |-> f.other_product_notes, access_type |-> f.access_type,
      etrm |-> f.etrm, front_end |-> f.front_end,
      front_end_details |-> f.front_end_details, source |-> f.source,
      notes |-> f.notes ]

\* Variants of the validation: one that accepts the placeholders as a company
\* name, one that accepts a missing client type.
Validate_any_company(company, client_type) ==
    IF ~Truthy(client_type) THEN "Client Type is required!"
    ELSE IF ~Truthy(company) THEN "Company name is required!"
         ELSE ""

Validate_any_client_type(company, client_type) ==
    IF ~Truthy(company) \/ company.v = placeholder_select
       \/ company.v = placeholder_new
    THEN "Company name is required!"
    ELSE ""

\* The validation of a submission: the error it reports, "" when it passes.
Validate(company, client_type) ==
    IF ~Truthy(client_type) THEN "Client Type is required!"
    ELSE IF ~Truthy(company) \/ company.v = placeholder_select
            \/ company.v = placeholder_new
         THEN "Company name is required!"
         ELSE ""

\* What may happen to the statements of the try block: <<the statement that
\* raises, whether the store keeps the row>>.  0: none raises; 1: the INSERT
\* (the store keeps no row); 2: the commit (the store decides); 3: the close
\* of the cursor or of the connection, after the commit.
InsertFaults == { <<0, TRUE>>, <<1, FALSE>>, <<2, FALSE>>, <<2, TRUE>>, <<3, TRUE>> }

\* insert_client_data: one INSERT when a connection is obtained.
InsertWith(c, fault) ==
    [ conn |-> c,
      executed |-> IF c.conn THEN 1 ELSE 0,
      raised |-> IF c.conn THEN fault[1] ELSE 0,
      rows |-> IF c.conn /\ fault[2] THEN 1 ELSE 0,
      ok |-> c.conn /\ fault[1] = 0,
      msgs |-> (IF c.error THEN {"Connection error"} ELSE {})
               \cup (IF c.conn /\ fault[1] > 0 THEN {"Insert error"} ELSE {}) ]

insert_client_data(first_up, fault) ==
    InsertWith(get_snowflake_connection(first_up), fault)

(* ------------------------------------------------- bounds and input sets *)

\* Widgets (other than the two keys) the user edits before a submission.
MaxEdits == 1
\* Seconds between two looks at the clock.
TickSeconds == 150

BlankRow(company, client_type, entry_date) ==
    [ ENTRY_DATE |-> entry_date, COMPANY |-> company, CLIENT_TYPE |-> client_type,
      CLIENT_STATUS |-> None, SENSITIVITIES |-> None, BARRIERS |-> None,
      DECISION_MAKERS |-> None, EUA_VOLUME |-> None, GO_VOLUME |-> None,
      OTHER_PRODUCT_NOTES |-> None, ACCESS_TYPE |-> None, FRONT_END |-> None,
      FRONT_END_DETAILS |-> None, CLEARERS |-> None, BROKERS |-> None,
      ETRM |-> None, SOURCE |-> None, NOTES |-> None ]

\* A row this form wrote: (Acme, Customer), barriers "Fees".
RowCurrent ==
    [BlankRow(Str(T("Acme")), Str(T("Customer")), 2) EXCEPT
        !.CLIENT_STATUS = Str(T("Client")),
        !.SENSITIVITIES = Str(<<"Margin", ",", " ", "Fees">>),
        !.BARRIERS = Str(T("Fees")),
        !.DECISION_MAKERS = Str(T("Jo")),
        !.EUA_VOLUME = Num(1505),
        !.ACCESS_TYPE = Str(T("NCM")),
        !.FRONT_END = Str(T("TT")),
        !.FRONT_END_DETAILS = Str(<<>>),
        !.CLEARERS = Str(<<"ClrB", ",", " ", "ClrA", " ", ",", "ClrB">>),
        !.SOURCE = Str(T("Call"))]

\* An older row of the same key, written when the option lists were others.
RowLegacy ==
    [BlankRow(Str(T("Acme")), Str(T("Customer")), 1) EXCEPT
        !.CLIENT_STATUS = Str(T("Dormant")),
        !.SENSITIVITIES = Str(<<"Margin", ",", " ", "Price">>),
        !.BARRIERS = Str(T("Fees")),
        !.GO_VOLUME = Num(0),
        !.BROKERS = Str(T("BrkA"))]

\* The contents the view may have, in the order the store returns the rows.
Views == {<<>>, <<RowCurrent>>, <<RowLegacy, RowCurrent>>}

NewNames == {<<>>, T("NewCo")}

\* The client types the user picks.
TypesPicked == {T("Customer"), T("Broker")}

Labels(options) == {None} \cup {Str(options[i]) : i \in DOMAIN options}

\* What the user may enter into a widget of the form.
FormInputs(k) ==
    CASE k = "client_status" -> {None, Str(T("Prospect"))}
      [] k = "sensitivities" -> {<<>>, <<T("Fees"), T("Margin")>>}
      [] k = "barriers" -> {<<>>, <<T("Fees"), T("Margin")>>}
      [] k = "decision_makers" -> {Str(<<>>), Str(T("Al"))}
      [] k = "eua_volume_range" -> {None, Str(T("5-10k"))}
      [] k = "eua_volume_exact" -> {IntVal(0), IntVal(150)}
      [] k = "other_product_notes" -> {Str(<<>>), Str(T("CBAM"))}
      [] k = "access_type" -> {None, Str(T("DMA"))}
      [] k = "etrm" -> {None, Str(T("Allegro"))}
      [] k = "front_end" -> {<<>>, <<T("CQG"), T("TT")>>}
      [] k = "front_end_details" -> {Str(<<>>), Str(T("v2"))}
      [] k = "source" -> {None, Str(T("Meeting"))}
      [] k = "notes" -> {Str(<<>>), Str(T("hi"))}

\* What the user may enter into a keyed widget (its value is session state).
SessionInputs(k, d, pre) ==
    CASE k = "go_volume_range" -> {None, Str(T("20k+"))}
      [] k = "go_volume_exact" -> {None, IntVal(150)}
      [] k = "clearers" ->
            { l \in {<<>>, <<T("ClrA")>>, <<T("ClrA"), T("ClrB")>>} :
                Range(l) \subseteq Range(d.clearers) \cup Range(Get(pre, "clearers", <<>>)) }
      [] k = "brokers" ->
            { l \in {<<>>, <<T("BrkA")>>} :
                Range(l) \subseteq Range(d.brokers) \cup Range(Get(pre, "brokers", <<>>)) }
      [] k = "add_new_clearer" -> BOOLEAN
      [] k = "add_new_broker" -> BOOLEAN
      [] k = "additional_clearers" ->
            {<<>>, T("ClrB"), <<" ", "ClrA", " ", ",", ",", "ClrC">>}
      [] k = "additional_brokers" -> {<<>>, T("BrkB")}

\* Keyed widgets inside the form: a change waits for the submit button.
FormKeys == {"go_volume_range", "go_volume_exact"}
\* Keyed widgets outside the form: a change runs the script at once.
PageKeys ==
    { "clearers", "brokers", "add_new_clearer", "add_new_broker",
      "additional_clearers", "additional_brokers" }

(* ------------------------------------------------------------- the state *)

VARIABLES
    pc,        \* "new" before the page is opened, then "ready"
    view,      \* STREAMLIT_APP_VIEW: the rows the store returns, in its order
    cache,     \* the entry of get_all_data in the cache, with its age
    ss,        \* st.session_state
    form,      \* the values shown by the keyless widgets of the form
    touched,   \* the widgets the user edited since they were last filled
    data,      \* what get_all_data returned to the latest run
    prefill,   \* the prefill of the latest run
    last       \* what the latest step did

vars == <<pc, view, cache, ss, form, touched, data, prefill, last>>

NoSubmit ==
    [ pressed |-> FALSE, error |-> "", w |-> <<>>, prefill |-> EmptyDict,
      touched |-> {}, eua_volume |-> None, go_volume |-> None, changed |-> {},
      data |-> EmptyDict, calls |-> 0, executed |-> 0, raised |-> 0, rows |-> 0,
      ok |-> FALSE ]

\* No call of has_changed recorded on its own.
NoCall ==
    [ called |-> FALSE, prefill |-> EmptyDict, field_name |-> "", new_value |-> None,
      verdict |-> FALSE, value |-> None ]

Did(msgs, fetched, conns, submit) ==
    [msgs |-> msgs, fetched |-> fetched, conns |-> conns, submit |-> submit,
     call |-> NoCall]

Init ==
    /\ pc = "new"
    /\ view \in Views
    /\ cache = NoCache
    /\ ss = InitSession
    /\ form = FormDefaults(EmptyDict)
    /\ touched = {}
    /\ data = EmptyData
    /\ prefill = EmptyDict
    /\ last = Did({}, <<>>, <<>>, NoSubmit)

(* ----------------------------------------------------------- the steps *)

\* Where the store first answers a connection attempt, and which query raises.
ConnInputs == {1, max_retries + 1}
QueryInputs == 0..3

\* The inputs of an execution that does not happen are not drawn.
FetchInputs(c) ==
    IF CacheValid(c) THEN {<<1, 0>>}
    ELSE { <<u, q>> \in ConnInputs \X QueryInputs : u > max_retries => q = 0 }

\* The errors an execution of get_all_data shows.
FetchMsgs(fetched) ==
    UNION { (IF fetched[i].conn.error THEN {"Connection error"} ELSE {})
            \cup (IF fetched[i].failed_query > 0 THEN {"Error fetching data"} ELSE {})
            : i \in DOMAIN fetched }

FetchConns(fetched) == [i \in DOMAIN fetched |-> fetched[i].conn]

\* The session fields a run has filled again, whatever the user had entered.
Refilled(s_in, top) ==
    (IF s_in.reset_company_fields
        \/ top.ss.previous_selection # s_in.previous_selection
     THEN {"clearers", "brokers", "go_volume_range", "go_volume_exact"} ELSE {})
    \cup (IF s_in.reset_company_fields \/ ~top.ss.add_new_clearer
          THEN {"additional_clearers"} ELSE {})
    \cup (IF s_in.reset_company_fields \/ ~top.ss.add_new_broker
          THEN {"additional_brokers"} ELSE {})

Differing(old, new) == { k \in FormFields : new[k] # old[k] }

\* The widgets of the form a run draws anew.
Redrawn(old_prefill, new_prefill) ==
    IF new_prefill = old_prefill THEN {}
    ELSE Differing(FormDefaults(old_prefill), FormDefaults(new_prefill))

\* The page after a run that met no pressed submit button; edited: the
\* widget whose change started the run.
Show(s_in, top, edited) ==
    /\ ss' = top.ss
    /\ cache' = top.cache
    /\ data' = top.data
    /\ prefill' = top.prefill
    /\ form' = RedrawForm(form, prefill, top.prefill)
    /\ touched' = ((touched \cup edited) \ Refilled(s_in, top))
                     \ Redrawn(prefill, top.prefill)
    /\ last' = Did(top.msgs \cup FetchMsgs(top.fetched), top.fetched,
                   FetchConns(top.fetched), NoSubmit)

\* A run of the script on the session s_in.
Rerun(s_in, in, edited) ==
    Show(s_in, RunTop(s_in, cache, view, in[1], in[2]), edited)

\* The browser opens the page: the first run.
OpenPageWith(inputs) ==
    /\ pc = "new"
    /\ pc' = "ready"
    /\ \E in \in inputs : Rerun(ss, in, {})
    /\ UNCHANGED view

OpenPage == OpenPageWith(FetchInputs(cache))

\* The same with the store answering the first attempt and every query.
OpenPageUp == OpenPageWith({<<1, 0>>})

\* The user picks another entry of the company select box.
SelectCompany ==
    /\ pc = "ready"
    /\ \E c \in Range(<<placeholder_select, placeholder_new>> \o data.companies) :
          /\ c # ss.company_selection
          /\ \E in \in FetchInputs(cache) :
                Rerun([ss EXCEPT !.company_selection = c], in, {})
    /\ UNCHANGED <<pc, view>>

\* The user types a name into "New Company Name".
TypeCompany ==
    /\ pc = "ready"
    /\ ss.company_selection = placeholder_new
    /\ \E n \in NewNames :
          /\ n # ss.new_company_name
          /\ \E in \in FetchInputs(cache) :
                Rerun([ss EXCEPT !.new_company_name = n], in, {})
    /\ UNCHANGED <<pc, view>>

\* The user picks a client type.
SelectClientType ==
    /\ pc = "ready"
    /\ \E t \in Range(client_type_options) \cap TypesPicked :
          /\ Str(t) # ss.client_type_selection
          /\ \E in \in FetchInputs(cache) :
                Rerun([ss EXCEPT !.client_type_selection = Str(t)], in, {})
    /\ UNCHANGED <<pc, view>>

\* The widget an edit counts against: the "add new" check box and its text
\* input are one.
TouchOf(k) ==
    CASE k = "add_new_clearer" -> "additional_clearers"
      [] k = "add_new_broker" -> "additional_brokers"
      [] OTHER -> k

CanTouch(k) == Cardinality(touched \cup {TouchOf(k)}) <= MaxEdits

\* The user changes a clearers or brokers widget; the script runs at once.
EditPage ==
    /\ pc = "ready"
    /\ \E k \in PageKeys :
          /\ CanTouch(k)
          /\ k = "additional_clearers" => ss.add_new_clearer
          /\ k = "additional_brokers" => ss.add_new_broker
          /\ \E v \in SessionInputs(k, data, prefill) :
                /\ v # ss[k]
                /\ \E in \in FetchInputs(cache) :
                      Rerun([ss EXCEPT ![k] = v], in, {TouchOf(k)})
    /\ UNCHANGED <<pc, view>>

\* The user changes a widget of the form: nothing runs until Submit.
EditForm ==
    /\ pc = "ready"
    /\ \/ \E k \in FormFields :
             /\ CanTouch(k)
             /\ \E v \in FormInputs(k) :
                   /\ v # form[k]
                   /\ form' = [form EXCEPT ![k] = v]
                   /\ touched' = touched \cup {k}
                   /\ ss' = ss
       \/ \E k \in FormKeys :
             /\ CanTouch(k)
             /\ \E v \in SessionInputs(k, data, prefill) :
                   /\ v # ss[k]
                   /\ ss' = [ss EXCEPT ![k] = v]
                   /\ touched' = touched \cup {k}
                   /\ form' = form
    /\ last' = Did({}, <<>>, <<>>, NoSubmit)
    /\ UNCHANGED <<pc, view, cache, data, prefill>>

\* Every label of a volume select box and a few exact entries.
VolumeInputs(k) ==
    CASE k = "eua_volume_range" -> Labels(eua_range_options)
      [] k = "go_volume_range" -> Labels(go_range_options)
      [] OTHER -> {None, IntVal(0), IntVal(1), IntVal(150)}

\* The user changes one of the four volume widgets of the form.
EditVolume ==
    /\ pc = "ready"
    /\ \/ \E k \in {"eua_volume_range", "eua_volume_exact"} :
             \E v \in VolumeInputs(k) :
                /\ v # form[k]
                /\ form' = [form EXCEPT ![k] = v]
                /\ touched' = touched \cup {k}
                /\ ss' = ss
       \/ \E k \in FormKeys :
             \E v \in VolumeInputs(k) :
                /\ v # ss[k]
                /\ ss' = [ss EXCEPT ![k] = v]
                /\ touched' = touched \cup {k}
                /\ form' = form
    /\ last' = Did({}, <<>>, <<>>, NoSubmit)
    /\ UNCHANGED <<pc, view, cache, data, prefill>>

\* clear_on_submit: the widgets of the form go back to what they start from.
ClearForm(s) == [s EXCEPT !.go_volume_range = None, !.go_volume_exact = IntVal(0)]

\* What the insert's connection and statement may do.
InsertInputs ==
    { <<u, f>> \in ConnInputs \X InsertFaults : u > max_retries => f = <<0, TRUE>> }

\* What a pressed Submit leaves in the ghost variable.
SubmitRecord(top, w, pressed_on, res) ==
    [ pressed |-> TRUE, error |-> "", w |-> w,
      prefill |-> top.prefill, touched |-> pressed_on,
      eua_volume |-> ResolveVolume(w.eua_volume_exact, w.eua_volume_range),
      go_volume |-> ResolveVolume(w.go_volume_exact, w.go_volume_range),
      changed |-> ChangedLists(w, top.prefill),
      data |-> BuildData(w, top.prefill), calls |-> 1,
      executed |-> res.executed, raised |-> res.raised, rows |-> res.rows,
      ok |-> res.ok ]

\* Validation stops the run: the error is shown and nothing else happens.
Blocked(top, w, pressed_on, error) ==
    /\ ss' = ClearForm(top.ss)
    /\ cache' = top.cache
    /\ data' = top.data
    /\ prefill' = top.prefill
    /\ form' = FormDefaults(top.prefill)
    /\ touched' = (touched \ Refilled(ss, top)) \ (FormFields \cup FormKeys)
    /\ last' = Did(top.msgs \cup FetchMsgs(top.fetched) \cup {error},
                   top.fetched, FetchConns(top.fetched),
                   [NoSubmit EXCEPT !.pressed = TRUE, !.error = error,
                                    !.w = w, !.prefill = top.prefill,
                                    !.touched = pressed_on])

\* The page after the insert: after is the run the page ends with.
Finish(top, w, pressed_on, res, after, msgs, touched_after) ==
    /\ ss' = after.ss
    /\ cache' = after.cache
    /\ data' = after.data
    /\ prefill' = after.prefill
    /\ form' = FormDefaults(after.prefill)
    /\ touched' = touched_after
    /\ last' = Did(top.msgs \cup FetchMsgs(top.fetched) \cup res.msgs \cup msgs,
                   top.fetched, FetchConns(top.fetched) \o <<res.conn>>,
                   SubmitRecord(top, w, pressed_on, res))

\* A variant that takes every insert for a success.
Inserted_always_ok(top, w, pressed_on, res) ==
    \E again \in {RunTop([ClearForm(top.ss) EXCEPT !.reset_company_fields = TRUE,
                                                   !.show_success = TRUE],
                         top.cache, view, 1, 0)} :
       Finish(top, w, pressed_on, res, again, again.msgs, {})

\* A successful insert sets the two flags and starts the script again; a
\* failed one shows an error and the run ends.
Inserted(top, w, pressed_on, res) ==
    IF res.ok
    THEN \E again \in {RunTop([ClearForm(top.ss) EXCEPT !.reset_company_fields = TRUE,
                                                        !.show_success = TRUE],
                              top.cache, view, 1, 0)} :
            Finish(top, w, pressed_on, res, again, again.msgs, {})
    ELSE Finish(top, w, pressed_on, res, [top EXCEPT !.ss = ClearForm(top.ss)],
                {"Failed to submit data."},
                (touched \ Refilled(ss, top)) \ (FormFields \cup FormKeys))

PressedOn(top, w, pressed_on, error, inserts) ==
    IF error # "" THEN Blocked(top, w, pressed_on, error)
    ELSE \E ins \in inserts :
            Inserted(top, w, pressed_on, insert_client_data(ins[1], ins[2]))

PressedWith(top, w, inserts) ==
    PressedOn(top, w, (touched \ Refilled(ss, top)) \ Redrawn(prefill, top.prefill),
              Validate(w.company, w.client_type), inserts)

Pressed(top, inserts) ==
    PressedWith(top, Widgets(top, RedrawForm(form, prefill, top.prefill)), inserts)

\* The user presses Submit.
SubmitWith(inserts) ==
    /\ pc = "ready"
    /\ \E in \in FetchInputs(cache) :
          Pressed(RunTop(ss, cache, view, in[1], in[2]), inserts)
    /\ UNCHANGED <<pc, view>>

Submit == SubmitWith(InsertInputs)

\* The same with the store answering the first attempt and the INSERT.
SubmitUp == SubmitWith({<<1, <<0, TRUE>>>>})

RefreshedTo(first, top) ==
    /\ ss' = top.ss
    /\ cache' = top.cache
    /\ data' = top.data
    /\ prefill' = top.prefill
    /\ form' = RedrawForm(RedrawForm(form, prefill, first.prefill),
                          first.prefill, top.prefill)
    /\ touched' = (((touched \ Refilled(ss, first)) \ Refilled(first.ss, top))
                     \ Redrawn(prefill, first.prefill))
                     \ Redrawn(first.prefill, top.prefill)
    /\ last' = Did(first.msgs \cup top.msgs \cup FetchMsgs(first.fetched \o top.fetched),
                   first.fetched \o top.fetched,
                   FetchConns(first.fetched \o top.fetched), NoSubmit)

\* The run that sees the button clears the cache and starts the script again.
Refreshed(first, in) ==
    RefreshedTo(first, RunTop(first.ss, NoCache, view, in[1], in[2]))

\* The user presses Refresh Data.
RefreshData ==
    /\ pc = "ready"
    /\ \E in1 \in FetchInputs(cache), in2 \in FetchInputs(NoCache) :
          Refreshed(RunTop(ss, cache, view, in1[1], in1[2]), in2)
    /\ UNCHANGED <<pc, view>>

\* Time passes: the cache entry ages.
Tick ==
    /\ CacheValid(cache)
    /\ cache' = IF cache.age + TickSeconds >= TTL THEN NoCache
                 ELSE [cache EXCEPT !.age = @ + TickSeconds]
    /\ last' = Did({}, <<>>, <<>>, NoSubmit)
    /\ UNCHANGED <<pc, view, ss, form, touched, data, prefill>>

\* Another writer changes what the view returns.
StoreChange ==
    /\ \E v \in Views : v # view /\ view' = v
    /\ last' = Did({}, <<>>, <<>>, NoSubmit)
    /\ UNCHANGED <<pc, cache, ss, form, touched, data, prefill>>

\* The values has_changed may be handed for a field, old or new.
CompareValues(field_name) ==
    IF field_name \in ListFields
    THEN { <<>>, <<T("Fees")>>, <<T("Margin")>>, <<T("Fees"), T("Margin")>>,
           <<T("Margin"), T("Fees")>>, <<T("Fees"), T("Fees")>>,
           <<T("Fees"), T("Margin"), T("Fees")>> }
    ELSE IF field_name \in {"eua_volume", "go_volume"}
    THEN {None, IntVal(0), IntVal(150), IntVal(7500)}
    ELSE {None, Str(<<>>), Str(T("Jo")), Str(T("Al"))}

\* The prefills it may meet: none, or a stored row's with the field's value.
ComparePrefills(field_name) ==
    {EmptyDict} \cup { [PrefillOfRow(RowCurrent) EXCEPT ![field_name] = old] :
                         old \in CompareValues(field_name) }

\* One entry of the data dict is computed from a prefill and a new value.
Compare ==
    /\ \E field_name \in ListFields \cup ScalarFields :
          \E p \in ComparePrefills(field_name), x \in CompareValues(field_name) :
             last' = [Did({}, <<>>, <<>>, NoSubmit) EXCEPT !.call =
                        [ called |-> TRUE, prefill |-> p, field_name |-> field_name,
                          new_value |-> x,
                          verdict |-> has_changed(p, field_name, x,
                                                  field_name \in ListFields),
                          value |-> Field(p, field_name, x) ]]
    /\ UNCHANGED <<pc, view, cache, ss, form, touched, data, prefill>>

Next ==
    \/ OpenPage
    \/ SelectCompany
    \/ TypeCompany
    \/ SelectClientType
    \/ EditPage
    \/ EditForm
    \/ Submit
    \/ EditVolume
    \/ RefreshData
    \/ Tick
    \/ StoreChange
    \/ Compare

Spec == Init /\ [][Next]_vars

\* The comparison alone, on every pair of an old and a new value.
InitCompare ==
    /\ Init
    /\ view = <<>>

SpecCompare == InitCompare /\ [][Compare]_vars

\* The form alone: the store answers, nobody else writes to it and the
\* cache entry does not expire.
NextForm ==
    \/ OpenPageUp
    \/ SelectCompany
    \/ TypeCompany
    \/ SelectClientType
    \/ EditPage
    \/ EditForm
    \/ SubmitUp

SpecForm == Init /\ [][NextForm]_vars

\* The volume widgets alone, with every label of the two select boxes, for
\* one selection of the two keys.
InitVolume ==
    /\ Init
    /\ view = <<RowCurrent>>

NextVolume ==
    \/ OpenPageUp
    \/ SelectCompany
    \/ SelectClientType
    \/ EditVolume
    \/ SubmitUp

SpecVolume == InitVolume /\ [][NextVolume]_vars

\* The reference data alone: the user edits no widget but the two keys.
NextCache ==
    \/ OpenPage
    \/ SelectCompany
    \/ TypeCompany
    \/ SelectClientType
    \/ Submit
    \/ RefreshData
    \/ Tick
    \/ StoreChange

SpecCache == Init /\ [][NextCache]_vars

\* The connections: the store answers from any attempt on, or never, while the
\* user works with the widgets outside the form.
AttemptInputs == 1..(max_retries + 1)

OpenPageAnyAttempt == OpenPageWith({ <<u, 0>> : u \in AttemptInputs })

SubmitAnyAttempt == SubmitWith({ <<u, <<0, TRUE>>>> : u \in AttemptInputs })

NextConnect ==
    \/ OpenPageAnyAttempt
    \/ SelectCompany
    \/ TypeCompany
    \/ SelectClientType
    \/ EditPage
    \/ SubmitAnyAttempt

SpecConnect == Init /\ [][NextConnect]_vars

(* ------------------------------------------------------- the properties *)

\* "" and None: what a scalar comparison takes for no value.
Blank(x) == x = None \/ x = Str(<<>>)

\* The value of field k the latest submission compared with the prefill.
Entered(k) ==
    CASE k = "eua_volume" -> last.submit.eua_volume
      [] k = "go_volume" -> last.submit.go_volume
      [] k \in ListFields -> ComparedList(last.submit.w, k)
      [] OTHER -> last.submit.w[k]

\* The text of a selection: its items with ", " between them.
Joined(items) ==
    [ i \in 1..(3 * Len(items) - 2) |->
        IF i % 3 = 1 THEN items[(i + 2) \div 3][1] ELSE IF i % 3 = 2 THEN "," ELSE " " ]

\* C1: when the selected company and client type have no prefill, every field
\* of the row handed to the insert carries the value resolved from the form:
\* the entered scalar, the joined selection or the resolved volume, and null
\* only where the user left the field blank.
C1_NewEntityFullPayload ==
    (last.submit.calls = 1 /\ DOMAIN last.submit.prefill = {}) =>
        /\ \A k \in ScalarFields :
              last.submit.data[k] = IF Blank(Entered(k)) THEN None ELSE Entered(k)
        /\ \A k \in ListFields :
              last.submit.data[k] = IF Entered(k) = <<>> THEN None
                                    ELSE Str(Joined(Entered(k)))

\* A new company NewCo of type Broker is submitted with barriers selected and
\* the notes left blank.
C1_Witness ==
    /\ last.submit.calls = 1
    /\ DOMAIN last.submit.prefill = {}
    /\ last.submit.w.company = Str(T("NewCo"))
    /\ last.submit.w.client_type = Str(T("Broker"))
    /\ last.submit.data.barriers = Str(<<"Fees", ",", " ", "Margin">>)
    /\ last.submit.data.notes = None

\* C2: for a scalar field with a prefill present, when the new and the stored
\* value are equal once "" and None are taken for the same, the value of the
\* field in the payload is null.
C2_UnchangedScalarIsNull ==
    ( /\ last.call.called
      /\ last.call.field_name \in ScalarFields
      /\ DOMAIN last.call.prefill # {}
      /\ \/ last.call.prefill[last.call.field_name] = last.call.new_value
         \/ /\ Blank(last.call.prefill[last.call.field_name])
            /\ Blank(last.call.new_value) )
    => last.call.value = None

\* A stored "" meets a new None.
C2_Witness ==
    /\ last.call.called
    /\ last.call.field_name = "decision_makers"
    /\ DOMAIN last.call.prefill # {}
    /\ last.call.prefill.decision_makers = Str(<<>>)
    /\ last.call.new_value = None
    /\ last.call.value = None

\* C3: for a set-valued field with a prefill present, has_changed answers
\* "changed" exactly when the set of the stored items and the set of the new
\* items differ, whatever the order and the repetitions in the two lists.
C3_ListsComparedAsSets ==
    ( /\ last.call.called
      /\ last.call.field_name \in ListFields
      /\ DOMAIN last.call.prefill # {} )
    => ( last.call.verdict <=>
           { last.call.prefill[last.call.field_name][i] :
               i \in DOMAIN last.call.prefill[last.call.field_name] }
           # { last.call.new_value[i] : i \in DOMAIN last.call.new_value } )

\* A stored list with a repeated item meets the same items in another order.
C3_Witness ==
    /\ last.call.called
    /\ last.call.field_name = "barriers"
    /\ DOMAIN last.call.prefill # {}
    /\ last.call.prefill.barriers = <<T("Fees"), T("Margin"), T("Fees")>>
    /\ last.call.new_value = <<T("Margin"), T("Fees")>>
    /\ ~last.call.verdict

\* The table of C4, label by label.
C4_Table(label) ==
    CASE label = T("<2.5k") -> 1250
      [] label = T("2.5-5k") -> 3750
      [] label = T("5-10k") -> 7500
      [] label = T("10-20k") -> 15000
      [] label = T("20-50k") -> 35000
      [] label = T("50k+") -> 50000
      [] label = T("20k+") -> 20000

C4_Resolved(exact, range) ==
    IF exact # None /\ exact.v > 0 THEN exact
    ELSE IF range # None THEN IntVal(C4_Table(range.v))
    ELSE None

\* C4: the EUA and the GO volume of a submission are the exact entry when it
\* is present and above zero, else the table value of the selected range
\* label, else null.
C4_VolumeResolution ==
    last.submit.calls = 1 =>
        /\ last.submit.eua_volume =
              C4_Resolved(last.submit.w.eua_volume_exact, last.submit.w.eua_volume_range)
        /\ last.submit.go_volume =
              C4_Resolved(last.submit.w.go_volume_exact, last.submit.w.go_volume_range)

\* EUA: exact 150 with the range "<2.5k" gives 150; GO: exact 0 with the range
\* "20k+" gives 20000.
C4_Witness ==
    /\ last.submit.calls = 1
    /\ last.submit.w.eua_volume_exact = IntVal(150)
    /\ last.submit.w.eua_volume_range = Str(T("<2.5k"))
    /\ last.submit.eua_volume = IntVal(150)
    /\ last.submit.w.go_volume_exact = IntVal(0)
    /\ last.submit.w.go_volume_range = Str(T("20k+"))
    /\ last.submit.go_volume = IntVal(20000)

\* C5: every row handed to the insert carries the company and the client type
\* the user had selected when Submit was pressed: a non-empty company name
\* that is neither placeholder, and one of the three client types.
C5_KeysAlwaysPopulated ==
    [][ last'.submit.calls = 1 =>
          /\ last'.submit.data.company =
                Str(IF ss.company_selection = placeholder_new
                    THEN ss.new_company_name ELSE ss.company_selection)
          /\ last'.submit.data.company.v
                \notin {<<>>, placeholder_select, placeholder_new}
          /\ last'.submit.data.client_type = ss.client_type_selection
          /\ last'.submit.data.client_type
                \in {Str(T("Customer")), Str(T("Clearer")), Str(T("Broker"))} ]_vars

\* A stored row is submitted again with nothing changed: the keys are all the
\* row carries.
C5_Witness ==
    /\ last.submit.calls = 1
    /\ DOMAIN last.submit.prefill # {}
    /\ last.submit.data.company = Str(T("Acme"))
    /\ last.submit.data.client_type = Str(T("Customer"))
    /\ \A k \in InsertColumns \ {"company", "client_type"} : last.submit.data[k] = None

\* C6: when Submit is pressed with no client type, or with a company that is
\* empty or one of the two placeholders, an error is shown, no row is built,
\* insert_client_data is not called and no connection is opened for it.
C6_ValidationBlocks ==
    ( /\ last.submit.pressed
      /\ \/ last.submit.w.client_type = None
         \/ last.submit.w.company.v \in {<<>>, placeholder_select, placeholder_new} )
    => /\ last.submit.error # ""
       /\ last.submit.error \in last.msgs
       /\ last.submit.data = EmptyDict
       /\ last.submit.calls = 0
       /\ last.submit.executed = 0
       /\ last.submit.rows = 0
       /\ Len(last.conns) = Len(last.fetched)

\* Submit is pressed with a client type and the name of the new company empty.
C6_Witness ==
    /\ last.submit.pressed
    /\ last.submit.w.client_type = Str(T("Customer"))
    /\ last.submit.w.company = Str(<<>>)
    /\ last.submit.error = "Company name is required!"
    /\ last.submit.calls = 0

\* C7: when a stored row exists for the selected keys and the user changes
\* the selection of barriers only, from {Fees} to {Fees, Margin}, the payload
\* carries "Fees, Margin" for barriers, null for every other field but the
\* keys, and the keys of the stored row.
C7_SingleFieldResubmission ==
    ( /\ last.submit.calls = 1
      /\ DOMAIN last.submit.prefill # {}
      /\ last.submit.touched = {"barriers"}
      /\ last.submit.prefill.barriers = <<T("Fees")>>
      /\ last.submit.w.barriers = <<T("Fees"), T("Margin")>> )
    => /\ last.submit.data.barriers = Str(<<"Fees", ",", " ", "Margin">>)
       /\ \A k \in InsertColumns \ {"barriers", "company", "client_type"} :
             last.submit.data[k] = None
       /\ last.submit.data.company = Str(T("Acme"))
       /\ last.submit.data.client_type = Str(T("Customer"))

\* C8: the row handed to the insert has the 20 columns of the INSERT as its
\* keys, whatever the form and the prefill hold: a field judged unchanged is
\* there with null, and overall, power and gas volume are always null.
C8_AllColumnsPresent ==
    last.submit.calls = 1 =>
        /\ DOMAIN last.submit.data = InsertColumns
        /\ Cardinality(DOMAIN last.submit.data) = 20
        /\ \A k \in ListFields \ last.submit.changed : last.submit.data[k] = None
        /\ last.submit.data.overall_volume = None
        /\ last.submit.data.power_volume = None
        /\ last.submit.data.gas_volume = None

\* A stored row is submitted again with new notes: the unchanged
\* sensitivities are there with null.
C8_Witness ==
    /\ last.submit.calls = 1
    /\ DOMAIN last.submit.prefill # {}
    /\ last.submit.prefill.sensitivities # <<>>
    /\ "sensitivities" \notin last.submit.changed
    /\ last.submit.data.sensitivities = None
    /\ last.submit.data.notes = Str(T("hi"))

\* The latest execution of get_all_data obtained a connection and none of its
\* queries raised.
FetchSucceeded(f) ==
    /\ f # <<>>
    /\ f[Len(f)].conn.conn
    /\ f[Len(f)].failed_query = 0

\* What the three queries return for the current content of the store.
CurrentContent ==
    [ companies |-> <<T("Acme")>>, brokers |-> <<T("BrkA")>>, clearers |-> <<T("ClrA")>>,
      clients_df |-> view,
      recent_df |-> Limit(OrderByDateDesc(view), RecentLimit) ]

C10_FailureReturnsEmpty ==
    (last.fetched # <<>> /\ ~FetchSucceeded(last.fetched)) => data = EmptyData

\* The company and the client type the page shows.
ShownCompany ==
    IF ss.company_selection = placeholder_new THEN ss.new_company_name
    ELSE ss.company_selection

\* The rows of the table the latest run got whose two keys equal the shown ones.
MatchingRows ==
    { i \in DOMAIN data.clients_df :
        /\ data.clients_df[i].COMPANY = Str(ShownCompany)
        /\ data.clients_df[i].CLIENT_TYPE = ss.client_type_selection }

\* C11: the prefill of a run is empty when the table is empty, when the
\* company is the empty text or no client type is selected, or when no row
\* equals both keys; otherwise it is the field values of the first row of the
\* table, in the table's order, that equals both keys.
C11_FirstMatchingRow ==
    pc = "ready" =>
        IF \/ data.clients_df = <<>>
           \/ ShownCompany = <<>>
           \/ ss.client_type_selection = None
           \/ MatchingRows = {}
        THEN prefill = EmptyDict
        ELSE \E i \in MatchingRows :
                /\ \A j \in MatchingRows : i <= j
                /\ prefill = PrefillOfRow(data.clients_df[i])

\* Two rows of the table equal (Acme, Customer): the prefill is the first
\* one's, which is not the one with the latest entry date.
C11_Witness ==
    /\ pc = "ready"
    /\ Cardinality(MatchingRows) = 2
    /\ data.clients_df[1].ENTRY_DATE < data.clients_df[2].ENTRY_DATE
    /\ prefill = PrefillOfRow(data.clients_df[1])
    /\ prefill # PrefillOfRow(data.clients_df[2])

\* The row the prefill of the latest run was made from.
PrefillRow ==
    data.clients_df[CHOOSE i \in MatchingRows : \A j \in MatchingRows : i <= j]

\* The words of a text: its tokens other than the comma and the blank.
Words(text) == SelectSeq(text, LAMBDA c : c \notin {",", " "})

\* The stored text of a column, "" for a missing one.
StoredText(x) == IF x.t = "str" THEN x.v ELSE <<>>

\* The columns holding one string, by the field of the prefill.
StringColumns ==
    [ client_status |-> "CLIENT_STATUS", decision_makers |-> "DECISION_MAKERS",
      other_product_notes |-> "OTHER_PRODUCT_NOTES", access_type |-> "ACCESS_TYPE",
      front_end_details |-> "FRONT_END_DETAILS", etrm |-> "ETRM",
      source |-> "SOURCE", notes |-> "NOTES" ]

ListColumns ==
    [ sensitivities |-> "SENSITIVITIES", barriers |-> "BARRIERS",
      front_end |-> "FRONT_END", clearers |-> "CLEARERS", brokers |-> "BROKERS" ]

\* The items of a comma-delimited text are its words, one item each, in order.
C12_ListsParsed ==
    (pc = "ready" /\ DOMAIN prefill # {}) =>
        \A k \in DOMAIN ListColumns :
           prefill[k] = [ i \in DOMAIN Words(StoredText(PrefillRow[ListColumns[k]]))
                            |-> <<Words(StoredText(PrefillRow[ListColumns[k]]))[i]>> ]

\* A stored volume becomes the whole number below it, a missing one is absent.
C12_VolumesParsed ==
    (pc = "ready" /\ DOMAIN prefill # {}) =>
        /\ prefill.eua_volume =
              IF PrefillRow.EUA_VOLUME = None THEN None
              ELSE IntVal(PrefillRow.EUA_VOLUME.v \div 10)
        /\ prefill.go_volume =
              IF PrefillRow.GO_VOLUME = None THEN None
              ELSE IntVal(PrefillRow.GO_VOLUME.v \div 10)

\* A blank or missing stored string is absent from the prefill.
C12_BlankStringsAbsent ==
    (pc = "ready" /\ DOMAIN prefill # {}) =>
        \A k \in DOMAIN StringColumns :
           Blank(PrefillRow[StringColumns[k]]) => prefill[k] = None

\* C12: the prefill of a matching row is the row transformed: each
\* comma-delimited text is the sequence of its stripped non-empty items, each
\* volume is a number, and a blank or missing stored string is absent, not
\* the empty string.
C12_RowTransformed ==
    /\ C12_ListsParsed
    /\ C12_VolumesParsed
    /\ C12_BlankStringsAbsent

\* The connection the latest submission asked for, when it asked for one.
InsertConns == SubSeq(last.conns, Len(last.fetched) + 1, Len(last.conns))

\* C13: a press of Submit executes at most one INSERT, and exactly one when
\* validation passes and the connection is obtained; when no connection is
\* obtained or the INSERT raises, no row is written, insert_client_data
\* returns False, the failure is shown, and neither the success message nor
\* the reset of the page follows.
C13_AtMostOneInsert ==
    last.submit.pressed =>
        /\ last.submit.executed <= 1
        /\ Len(InsertConns) <= 1
        /\ (last.submit.error = "") <=> (last.submit.calls = 1)
        /\ (last.submit.calls = 1 /\ InsertConns[1].conn) => last.submit.executed = 1
        /\ (last.submit.calls = 1 /\ (~InsertConns[1].conn \/ last.submit.raised = 1)) =>
              /\ last.submit.rows = 0
              /\ ~last.submit.ok
              /\ "Failed to submit data." \in last.msgs
              /\ (IF InsertConns[1].conn THEN "Insert error" ELSE "Connection error")
                    \in last.msgs
              /\ "success" \notin last.msgs
              /\ ~ss.reset_company_fields
              /\ ~ss.show_success
              /\ ss.previous_selection # None
              /\ Str(ShownCompany) = last.submit.w.company

\* The INSERT of a submission raised: one statement was executed, no row was
\* written and the error is shown.
C13_Witness ==
    /\ last.submit.calls = 1
    /\ InsertConns[1].conn
    /\ last.submit.raised = 1
    /\ last.submit.executed = 1
    /\ last.submit.rows = 0
    /\ "Insert error" \in last.msgs

\* "" and None as one null, any other value as itself.
NullIfBlank(x) == IF Blank(x) THEN None ELSE x

\* C14: for a scalar field with a prefill present, has_changed reports a
\* change exactly when the new and the stored value differ once "" and None
\* are one null; the payload then holds the new value in that form, and null
\* when there is no change.  A field the user cleared counts as changed and
\* its payload value is null all the same.
C14_ScalarInclusion ==
    ( /\ last.call.called
      /\ last.call.field_name \in ScalarFields
      /\ DOMAIN last.call.prefill # {} )
    => /\ last.call.verdict <=>
             NullIfBlank(last.call.new_value)
                # NullIfBlank(last.call.prefill[last.call.field_name])
       /\ last.call.value =
             IF last.call.verdict THEN NullIfBlank(last.call.new_value) ELSE None

\* The stored notes were "Jo" and the user cleared them.
C14_Witness ==
    /\ last.call.called
    /\ last.call.field_name = "notes"
    /\ DOMAIN last.call.prefill # {}
    /\ last.call.prefill.notes = Str(T("Jo"))
    /\ last.call.new_value = Str(<<>>)
    /\ last.call.verdict
    /\ last.call.value = None

\* C15: every call of get_snowflake_connection ends after at most
\* max_retries attempts: it returns the connection of the first attempt the
\* store answers and attempts no more, returns None with an error shown
\* exactly when none of the max_retries attempts is answered, and sleeps once
\* after each failed attempt but the last of the max_retries.
C15_BoundedRetries ==
    \A i \in DOMAIN last.conns :
       /\ last.conns[i].attempts \in 1..max_retries
       /\ last.conns[i].conn <=> last.conns[i].first_up <= max_retries
       /\ last.conns[i].conn => last.conns[i].attempts = last.conns[i].first_up
       /\ last.conns[i].conn => last.conns[i].sleeps = last.conns[i].attempts - 1
       /\ ~last.conns[i].conn => last.conns[i].attempts = max_retries
       /\ ~last.conns[i].conn => last.conns[i].sleeps = max_retries - 1
       /\ last.conns[i].error <=> ~last.conns[i].conn
       /\ last.conns[i].error => "Connection error" \in last.msgs

\* A connection obtained at the last attempt, after two sleeps.
C15_Witness ==
    \E i \in DOMAIN last.conns :
       /\ last.conns[i].conn
       /\ last.conns[i].attempts = max_retries
       /\ last.conns[i].sleeps = max_retries - 1
       /\ ~last.conns[i].error

\* C16: the result of an execution of get_all_data is cached whether it
\* failed or not; while the entry of a failed execution (empty reference
\* data) is valid and Refresh Data is not pressed, every run gets that empty
\* data again and the store is not queried, whatever it holds by then.
C16_FailureIsCached ==
    [][ /\ last'.fetched # <<>> => cache' = [value |-> data', age |-> 0]
        /\ (CacheValid(cache) /\ cache.value = EmptyData /\ ~RefreshData) =>
              /\ data' = EmptyData
              /\ last'.fetched = <<>>
              /\ last'.conns = SubSeq(last'.conns, 1, last'.submit.calls) ]_vars

\* Submit is pressed while the entry of a failed execution is valid and the
\* store holds rows: the run gets the empty data without a query.
C16_Witness ==
    /\ last.submit.pressed
    /\ last.fetched = <<>>
    /\ CacheValid(cache)
    /\ cache.age > 0
    /\ cache.value = EmptyData
    /\ data = EmptyData
    /\ view # <<>>

\* C17: the run that follows a successful insert puts the company select box
\* back to "Select a company...", clears the client type, the clearers, the
\* brokers, the add-new inputs, the GO volume inputs and the previous
\* selection, shows the success message and clears both flags; a failed or a
\* blocked submission resets nothing and shows no success message, and no
\* other run does either.
C17_ResetOncePerSuccess ==
    /\ ~ss.reset_company_fields
    /\ ~ss.show_success
    /\ "success" \in last.msgs <=> (last.submit.pressed /\ last.submit.ok)
    /\ (last.submit.pressed /\ last.submit.ok) =>
          /\ ss.company_selection = placeholder_select
          /\ ss.new_company_name = <<>>
          /\ ss.client_type_selection = None
          /\ ss.clearers = <<>> /\ ss.brokers = <<>>
          /\ ~ss.add_new_clearer /\ ~ss.add_new_broker
          /\ ss.additional_clearers = <<>> /\ ss.additional_brokers = <<>>
          /\ ss.go_volume_range = None /\ ss.go_volume_exact = None
          /\ ss.previous_selection
                = Str(placeholder_select \o <<"|">> \o T("None"))
          /\ prefill = EmptyDict
    /\ (last.submit.pressed /\ ~last.submit.ok) =>
          /\ Str(ShownCompany) = last.submit.w.company
          /\ ss.client_type_selection = last.submit.w.client_type
          /\ ss.clearers = last.submit.w.clearers
          /\ ss.brokers = last.submit.w.brokers
          /\ ss.additional_clearers = last.submit.w.additional_clearers
          /\ ss.additional_brokers = last.submit.w.additional_brokers
          /\ ss.previous_selection # None

\* A stored row with clearers was submitted again: the page is reset and the
\* success message is shown.
C17_Witness ==
    /\ last.submit.pressed
    /\ last.submit.ok
    /\ last.submit.w.company = Str(T("Acme"))
    /\ last.submit.w.clearers # <<>>
    /\ ss.company_selection = placeholder_select
    /\ ss.clearers = <<>>
    /\ "success" \in last.msgs

====
